---- MODULE Spec2Model ----
(***************************************************************************)
(* A model of the Revista Ateista build pipeline (src/build_magazine.py)   *)
(* and of the identifier normaliser of the ingestion script                *)
(* (src/download_revista_ateista.py).                                      *)
(*                                                                         *)
(* Python values are tagged tuples:                                        *)
(*   <<"none">>            None                                            *)
(*   <<"int", n>>          an int                                          *)
(*   <<"nan">>             float('nan'), what pandas gives an empty cell   *)
(*   <<"str", s>>          a str, s the very characters                    *)
(*   <<"list", <<...>>>>   a list of values                                *)
(*   <<"dict", <<<<k, v>>, ...>>>>  a dict, as its items in order          *)
(* The outcome of a call is <<"ret", value>> or <<"raise", exception>>.    *)
(***************************************************************************)
EXTENDS Integers, Sequences, FiniteSets, TLC

VARIABLES
    ci_pc,      \* clean_id harness: "call" before the call, "done" after it
    ci_side,    \* "build" (build_magazine.py) or "ingest" (download_revista_ateista.py)
    ci_v,       \* the argument of clean_id
    ci_res,     \* the outcome of clean_id(ci_v)
    wt_pc,      \* cover-layout harness: "call" before wrap_text, "done" after it
    wt_text,    \* the title, a sequence of characters
    wt_width,   \* base.width, the width of the cover image in pixels
    wt_lines,   \* the lines wrap_text returned
    wt_height,  \* base.height, the height of the cover image in pixels
    wt_line_height, \* font_title.getbbox("Ay")[3], the height of a line
    wt_subtitle,    \* the subtitle compose_cover is given, "" for none
    wt_layout,  \* where compose_cover drew: block_h, start_y, each y_line, sy
    bb_pc,      \* bb2html harness: "call" before the call, "done" after it
    bb_txt,     \* the markup bb2html is given, a sequence of tokens
    bb_html     \* the HTML bb2html returned, a sequence of tokens

VARIABLES
    pc,         \* main(): the step the run is at; "idle" when a harness runs
    ed_df,      \* the rows of the latest edicoes_*.csv
    art_df,     \* the rows of the latest artigos_enriched_*.csv
    latest_num, \* ed_df["numero"].max()
    edition,    \* the row of the current edition
    ed_id,      \* edition["_id"]
    arts,       \* art_df[mask]: the selected rows
    articles,   \* the list of article dicts
    STYLE,      \* the module-level style map
    highlights, \* the highlight entries
    font,       \* the typeface compose_cover draws with
    cover,      \* the cover image compose_cover wrote
    back,       \* the back cover blank_back wrote
    pdf,        \* the PDF build_pdf wrote
    error       \* the exception that ended the run

ci_vars == <<ci_pc, ci_side, ci_v, ci_res>>
wt_vars == <<wt_pc, wt_text, wt_width, wt_lines, wt_height, wt_line_height,
            wt_subtitle, wt_layout>>
bb_vars == <<bb_pc, bb_txt, bb_html>>
in_vars == <<ed_df, art_df>>
pl_vars == <<pc, ed_df, art_df, latest_num, edition, ed_id, arts, articles, STYLE,
             highlights, font, cover, back, pdf, error>>
vars == <<ci_vars, wt_vars, bb_vars, pl_vars>>

----------------------------------------------------------------------------
(* Python values *)

None == <<"none">>
IntV(n) == <<"int", n>>
NaN == <<"nan">>
StrV(s) == <<"str", s>>
ListV(xs) == <<"list", xs>>
DictV(items) == <<"dict", items>>

Ret(v) == <<"ret", v>>
Raise(e) == <<"raise", e>>

IsStr(v) == v[1] = "str"
IsList(v) == v[1] = "list"
IsDict(v) == v[1] = "dict"

\* Python truth value of v ("if not value", "a or b").
Truthy(v) ==
    CASE v[1] = "none" -> FALSE
      [] v[1] = "int"  -> v[2] # 0
      [] v[1] = "nan"  -> TRUE
      [] v[1] = "str"  -> v[2] # ""
      [] v[1] = "list" -> v[2] # <<>>
      [] v[1] = "dict" -> v[2] # <<>>

\* Python's "a or b": a when a is truthy, else b.
PyOr(a, b) == IF Truthy(a) THEN a ELSE b

\* dict.get(k): the value under k, None when k is not a key.
DictGet(d, k) ==
    IF \E i \in 1..Len(d[2]) : d[2][i][1] = k
    THEN d[2][CHOOSE i \in 1..Len(d[2]) : d[2][i][1] = k][2]
    ELSE None

----------------------------------------------------------------------------
(* The strings of the model, and what str.startswith, str.endswith,         *)
(* str.strip and ast.literal_eval give on each of them.                     *)

Strings ==
    { "", " ", "E1", "E2", " E2 ",
      "['E2']", " ['E2'] ", "['E2', 'E1']", "[['E2']]", "[7]", "[0]", "[None]",
      "[{'_id': 'E2'}]", "[]",
      "[abc", "[abc ", "[abc]", "[1,,]", "[{[]}]", "['E2'], 2", "['E2'] # id" }

\* s.startswith("[")
StartsWithBracket(s) ==
    s \in { "['E2']", "['E2', 'E1']", "[['E2']]", "[7]", "[0]", "[None]",
            "[{'_id': 'E2'}]", "[]",
            "[abc", "[abc ", "[abc]", "[1,,]", "[{[]}]", "['E2'], 2", "['E2'] # id" }

\* s.endswith("]")
EndsWithBracket(s) ==
    s \in { "['E2']", "['E2', 'E1']", "[['E2']]", "[7]", "[0]", "[None]",
            "[{'_id': 'E2'}]", "[]", "[abc]", "[1,,]", "[{[]}]" }

\* s.strip()
Strip(s) ==
    CASE s = " "        -> ""
      [] s = " E2 "     -> "E2"
      [] s = " ['E2'] " -> "['E2']"
      [] s = "[abc "    -> "[abc"
      [] OTHER          -> s

\* ast.literal_eval(s): the literal, or the exception it raises.
LiteralEval(s) ==
    CASE s = "['E2']"          -> Ret(ListV(<<StrV("E2")>>))
      [] s = " ['E2'] "        -> Ret(ListV(<<StrV("E2")>>))
      [] s = "['E2'] # id"     -> Ret(ListV(<<StrV("E2")>>))
      [] s = "['E2', 'E1']"    -> Ret(ListV(<<StrV("E2"), StrV("E1")>>))
      [] s = "[['E2']]"        -> Ret(ListV(<<ListV(<<StrV("E2")>>)>>))
      [] s = "[7]"             -> Ret(ListV(<<IntV(7)>>))
      [] s = "[0]"             -> Ret(ListV(<<IntV(0)>>))
      [] s = "[None]"          -> Ret(ListV(<<None>>))
      [] s = "[{'_id': 'E2'}]" -> Ret(ListV(<<DictV(<<<<"_id", StrV("E2")>>>>)>>))
      [] s = "[]"              -> Ret(ListV(<<>>))
      [] s = "['E2'], 2"       -> Ret(<<"tuple">>)
      [] s = "[abc]"           -> Raise("ValueError")
      [] s = "[{[]}]"          -> Raise("TypeError")
      [] OTHER                 -> Raise("SyntaxError")

\* Whether s holds a single quote: repr then quotes s with double quotes.
HasSingleQuote(s) ==
    s \in { "['E2']", " ['E2'] ", "['E2', 'E1']", "[['E2']]", "[{'_id': 'E2'}]",
            "['E2'], 2", "['E2'] # id" }

RECURSIVE PyRepr(_)
RECURSIVE ReprJoin(_, _)

\* ", ".join(repr(x) for x in xs[i:]), and with dict set, of "k: v" items.
ReprJoin(xs, isDict) ==
    IF xs = <<>> THEN ""
    ELSE LET head == IF isDict
                     THEN "'" \o xs[1][1] \o "': " \o PyRepr(xs[1][2])
                     ELSE PyRepr(xs[1])
         IN  IF Len(xs) = 1 THEN head
             ELSE head \o ", " \o ReprJoin(Tail(xs), isDict)

\* repr(v)
PyRepr(v) ==
    CASE v[1] = "none" -> "None"
      [] v[1] = "int"  -> ToString(v[2])
      [] v[1] = "nan"  -> "nan"
      [] v[1] = "str"  -> IF HasSingleQuote(v[2])
                          THEN "\"" \o v[2] \o "\""
                          ELSE "'" \o v[2] \o "'"
      [] v[1] = "list" -> "[" \o ReprJoin(v[2], FALSE) \o "]"
      [] v[1] = "dict" -> "{" \o ReprJoin(v[2], TRUE) \o "}"

\* str(v): a str is itself, anything else its repr.
PyStr(v) == IF IsStr(v) THEN v[2] ELSE PyRepr(v)

----------------------------------------------------------------------------
(* clean_id, build side: src/build_magazine.py *)

RECURSIVE clean_id(_)

\* Lines 43-45: what follows the list-like-string branch.
clean_id_tail(v) ==
    IF IsDict(v)
    THEN Ret(PyOr(DictGet(v, "unique_id"), DictGet(v, "_id")))
    ELSE Ret(StrV(PyStr(v)))

clean_id(v) ==
    IF v = None THEN Ret(None)
    ELSE IF IsStr(v) /\ StartsWithBracket(v[2])
    THEN LET lst == LiteralEval(v[2]) IN
         IF lst[1] = "raise"
         THEN Ret(v)                                   \* except Exception: return v
         ELSE IF IsList(lst[2]) /\ lst[2][2] # <<>>
              THEN LET first == clean_id(lst[2][2][1]) IN
                   IF first[1] = "raise" THEN Ret(v) ELSE first
              ELSE clean_id_tail(v)
    ELSE clean_id_tail(v)

----------------------------------------------------------------------------
(* clean_id, ingestion side: src/download_revista_ateista.py *)

\* The exceptions the ingestion side catches: except (SyntaxError, ValueError).
IngestCaught == {"SyntaxError", "ValueError"}

RECURSIVE clean_id_ingest(_)

clean_id_ingest(value) ==
    IF ~Truthy(value) THEN Ret(None)
    ELSE IF IsList(value) THEN clean_id_ingest(value[2][1])
    ELSE IF IsStr(value)
    THEN LET s == Strip(value[2]) IN
         IF StartsWithBracket(s) /\ EndsWithBracket(s)
         THEN LET parsed == LiteralEval(s) IN
              IF parsed[1] = "raise"
              THEN IF parsed[2] \in IngestCaught THEN Ret(StrV(s)) ELSE parsed
              ELSE IF IsList(parsed[2]) /\ parsed[2][2] # <<>>
                   THEN LET first == clean_id_ingest(parsed[2][2][1]) IN
                        IF first[1] = "raise" /\ first[2] \in IngestCaught
                        THEN Ret(StrV(s)) ELSE first
                   ELSE Ret(StrV(s))
         ELSE Ret(StrV(s))
    ELSE IF IsDict(value)
    THEN Ret(PyOr(PyOr(DictGet(value, "unique_id"), DictGet(value, "_id")),
                  DictGet(value, "id")))
    ELSE Ret(StrV(PyStr(value)))

\* The normaliser of one side.
CleanIdOf(side, v) == IF side = "build" THEN clean_id(v) ELSE clean_id_ingest(v)

----------------------------------------------------------------------------
(* The reference values the normaliser is applied to *)

\* The deepest nesting of genuine lists among the arguments.
MaxNest == 2

Dicts ==
    { DictV(<<>>),
      DictV(<<<<"_id", StrV("E2")>>>>),
      DictV(<<<<"unique_id", StrV("E1")>>, <<"_id", StrV("E2")>>>>),
      DictV(<<<<"unique_id", StrV("")>>, <<"_id", StrV("E2")>>>>),
      DictV(<<<<"id", StrV("E1")>>>>) }

BaseValues ==
    {None, IntV(0), IntV(7), NaN} \cup {StrV(s) : s \in Strings} \cup Dicts

\* What follows the first element of a genuine list.
ListTails == { <<>>, <<StrV("E1")>> }

RECURSIVE ValuesUpTo(_)
ValuesUpTo(d) ==
    IF d = 0 THEN BaseValues
    ELSE LET prev == ValuesUpTo(d - 1) IN
         prev \cup {ListV(<<>>)} \cup {ListV(<<v>> \o t) : v \in prev, t \in ListTails}

RefValues == ValuesUpTo(MaxNest)

----------------------------------------------------------------------------
(* Text: a str is a sequence of characters here, so that split, join and   *)
(* the measured width are computed.                                         *)

\* The characters of a title: a narrow glyph, a wide glyph, and the space.
Chars == {"i", "m", " "}

\* The advance of one glyph in pixels: what textbbox adds for it.
GlyphWidth(c) == IF c = "m" THEN 2 ELSE 1

RECURSIVE TextWidth(_)
\* draw.textbbox((0, 0), line, font=font)[2]: the right edge of the text's box.
TextWidth(line) ==
    IF line = <<>> THEN 0 ELSE GlyphWidth(Head(line)) + TextWidth(Tail(line))

RECURSIVE SplitFrom(_, _, _)
\* str.split() over the rest of the text: cur is the word being read.
SplitFrom(rest, cur, acc) ==
    IF rest = <<>>
    THEN IF cur = <<>> THEN acc ELSE Append(acc, cur)
    ELSE IF Head(rest) = " "
         THEN SplitFrom(Tail(rest), <<>>, IF cur = <<>> THEN acc ELSE Append(acc, cur))
         ELSE SplitFrom(Tail(rest), Append(cur, Head(rest)), acc)

\* text.split(): the maximal runs of characters that are not whitespace.
Split(text) == SplitFrom(text, <<>>, <<>>)

RECURSIVE Join(_)
\* " ".join(words)
Join(words) ==
    IF words = <<>> THEN <<>>
    ELSE IF Len(words) = 1 THEN words[1]
    ELSE words[1] \o <<" ">> \o Join(Tail(words))

----------------------------------------------------------------------------
(* wrap_text: src/build_magazine.py, lines 51-71 *)

\* A loop body that loses the word that overflowed (current = []).
WrapStepDropsWord(st, w, max_width) ==
    IF TextWidth(Join(Append(st.current, w))) <= max_width
    THEN [lines |-> st.lines, current |-> Append(st.current, w)]
    ELSE [lines |-> Append(st.lines, Join(st.current)), current |-> <<>>]

\* A loop body that measures the line without the word it is about to add.
WrapStepMeasuresBefore(st, w, max_width) ==
    IF TextWidth(Join(st.current)) <= max_width
    THEN [lines |-> st.lines, current |-> Append(st.current, w)]
    ELSE [lines |-> Append(st.lines, Join(st.current)), current |-> <<w>>]

\* One pass of the loop body for word w, lines 62-68.
WrapStep(st, w, max_width) ==
    LET test_line == Join(Append(st.current, w))
        w_box == TextWidth(test_line)
    IN  IF w_box <= max_width
        THEN [lines |-> st.lines, current |-> Append(st.current, w)]
        ELSE [lines |-> Append(st.lines, Join(st.current)), current |-> <<w>>]

RECURSIVE WrapLoop(_, _, _)
\* for w in words, lines 61-68.
WrapLoop(st, words, max_width) ==
    IF words = <<>> THEN st
    ELSE WrapLoop(WrapStep(st, Head(words), max_width), Tail(words), max_width)

wrap_text(text, max_width) ==
    LET st == WrapLoop([lines |-> <<>>, current |-> <<>>], Split(text), max_width)
    IN  IF st.current # <<>> THEN Append(st.lines, Join(st.current)) ELSE st.lines

\* max_width = int(base.width * 0.8), line 112.
MaxWidthOf(base_width) == (base_width * 8) \div 10

\* The pixels between two lines of the title, line 117.
LineGap == 10

\* The pixels between the title block and the subtitle, line 131.
SubtitleGap == 20

\* Nothing drawn yet.
NoLayout == [block_h |-> 0, start_y |-> 0, ys |-> <<>>, sy |-> <<>>]

\* A top of the block at 65 % of the height, the block hanging below it.
StartYAtTop(height, block_h) == (height * 65) \div 100

\* start_y = int(base.height * 0.65) - block_h // 2, line 118.
StartY(height, block_h) == ((height * 65) \div 100) - (block_h \div 2)

\* compose_cover, lines 115-133: the height of the block, its top, the y of
\* each line and, when there is a subtitle, the y of the subtitle.
compose_layout(lines, line_height, height, subtitle) ==
    LET block_h == Len(lines) * line_height + (Len(lines) - 1) * LineGap
        start_y == StartY(height, block_h)
    IN  [block_h |-> block_h,
         start_y |-> start_y,
         ys |-> [i \in 1..Len(lines) |-> start_y + (i - 1) * (line_height + LineGap)],
         sy |-> IF subtitle # "" THEN <<start_y + block_h + SubtitleGap>> ELSE <<>>]

----------------------------------------------------------------------------
(* The titles and covers of the cover layout *)

\* The longest title, in characters.
MaxTextLen == 6

\* The widest cover image, in pixels.
MaxBaseWidth == 6

\* The highest cover image, in pixels.
MaxBaseHeight == 20

\* The highest line of the title font, in pixels.
MaxLineHeight == 3

\* The longest title of the layout harness, in characters.
MaxLayoutTextLen == 5

RECURSIVE TextsUpTo(_)
TextsUpTo(n) ==
    IF n = 0 THEN {<<>>}
    ELSE LET prev == TextsUpTo(n - 1) IN
         prev \cup {Append(x, c) : x \in {y \in prev : Len(y) = n - 1}, c \in Chars}

Texts == TextsUpTo(MaxTextLen)

----------------------------------------------------------------------------
(* bb2html: src/build_magazine.py, lines 22-33.                             *)
(* Markup and HTML are sequences of tokens [type, name, open, attrs, css]:  *)
(*   "text"  characters that are shown as they are (name tells which)       *)
(*   "nl"    a newline of the markup                                        *)
(*   "bb"    a BBCode tag [name] (open) or [/name] (not open)               *)
(*   "html"  a tag <name attrs> written in the markup itself                *)
(*   "elem"  an element of the HTML: its tag, the names of its attributes   *)
(*           and the CSS properties of its style attribute                  *)

Tok(type, name, open, attrs, css) ==
    [type |-> type, name |-> name, open |-> open, attrs |-> attrs, css |-> css]

Txt(s) == Tok("text", s, FALSE, {}, {})
Newline == Tok("nl", "", FALSE, {}, {})
BBOpen(name) == Tok("bb", name, TRUE, {}, {})
BBClose(name) == Tok("bb", name, FALSE, {}, {})
RawHtml(name, open, attrs) == Tok("html", name, open, attrs, {})
Elem(name, open, attrs, css) == Tok("elem", name, open, attrs, css)

\* What a tag becomes once its angle brackets are escaped, or once it is
\* left as it was written: characters.
Escape(tok) == [tok EXCEPT !.type = "text"]

\* The formatters bbcode.Parser() installs, line 22: the element each tag
\* opens.
BBRender ==
    ("b" :> Elem("strong", TRUE, {}, {})) @@
    ("i" :> Elem("em", TRUE, {}, {})) @@
    ("u" :> Elem("u", TRUE, {}, {})) @@
    ("s" :> Elem("strike", TRUE, {}, {})) @@
    ("sub" :> Elem("sub", TRUE, {}, {})) @@
    ("sup" :> Elem("sup", TRUE, {}, {})) @@
    ("hr" :> Elem("hr", TRUE, {}, {})) @@
    ("list" :> Elem("ul", TRUE, {}, {})) @@
    ("*" :> Elem("li", TRUE, {}, {})) @@
    ("quote" :> Elem("blockquote", TRUE, {}, {})) @@
    ("code" :> Elem("code", TRUE, {}, {})) @@
    ("center" :> Elem("div", TRUE, {"style"}, {"text-align"})) @@
    ("color" :> Elem("span", TRUE, {"style"}, {"color"})) @@
    ("url" :> Elem("a", TRUE, {"rel", "href"}, {}))

\* BB.format on one token, line 32: the HTML of the markup is escaped, a
\* newline becomes <br />, a known tag becomes its element and an unknown
\* one stays as it was written.
BBFormatTok(tok) ==
    CASE tok.type = "html" -> Escape(tok)
      [] tok.type = "nl" -> Elem("br", TRUE, {}, {})
      [] tok.type = "bb" /\ tok.name \in DOMAIN BBRender ->
            IF tok.open THEN BBRender[tok.name]
            ELSE Elem(BBRender[tok.name].name, FALSE, {}, {})
      [] tok.type = "bb" /\ tok.name \notin DOMAIN BBRender -> Escape(tok)
      [] OTHER -> tok

\* BB.format(txt), line 32.
BBFormat(txt) == [i \in 1..Len(txt) |-> BBFormatTok(txt[i])]

\* bleach.sanitizer.ALLOWED_TAGS, line 24.
BleachDefaultTags ==
    {"a", "abbr", "acronym", "b", "blockquote", "code", "em", "i", "li", "ol",
     "strong", "ul"}

\* Lines 24-26.
ALLOWED_TAGS ==
    BleachDefaultTags \cup {"p", "span", "div", "h1", "h2", "h3", "br", "hr", "img"}

\* Line 27.
ALLOWED_ATTR == ("*" :> {"class"}) @@ ("img" :> {"src", "alt"})

\* The CSS properties of SAN, line 28.
SAN == {"color", "font-size", "text-align"}

\* The attributes bleach keeps on an element of this tag: those of "*" and
\* those of the tag.
AllowedAttrOf(tag) ==
    ALLOWED_ATTR["*"] \cup (IF tag \in DOMAIN ALLOWED_ATTR THEN ALLOWED_ATTR[tag] ELSE {})

\* bleach.clean on one token, lines 32-33: an element whose tag is not
\* allowed is escaped, an allowed one loses the attributes that are not
\* allowed, and a style that stays keeps the properties of the sanitizer.
CleanTok(tok) ==
    IF tok.type # "elem" THEN tok
    ELSE IF tok.name \notin ALLOWED_TAGS THEN Escape(tok)
    ELSE LET kept == tok.attrs \cap AllowedAttrOf(tok.name)
         IN  Elem(tok.name, tok.open, kept,
                  IF "style" \in kept THEN tok.css \cap SAN ELSE {})

\* A sanitizer that lets everything through.
CleanKeepsAll(html) == html

\* bleach.clean(html, tags=ALLOWED_TAGS, attributes=ALLOWED_ATTR,
\* css_sanitizer=SAN), lines 32-33.
Clean(html) == [i \in 1..Len(html) |-> CleanTok(html[i])]

\* bb2html, lines 31-33.
bb2html(txt) == Clean(BBFormat(IF txt # <<>> THEN txt ELSE <<>>))

\* The longest markup of the harness, in tokens.
MaxMarkupLen == 3

\* The tokens of the markup of the harness.
MarkupTokens ==
    { Txt("oi"), Newline,
      RawHtml("script", TRUE, {}), RawHtml("script", FALSE, {}),
      RawHtml("img", TRUE, {"src", "onerror"}),
      BBOpen("b"), BBClose("b"), BBOpen("u"), BBOpen("url"), BBOpen("color"),
      BBOpen("center"), BBOpen("img") }

RECURSIVE MarkupsUpTo(_)
MarkupsUpTo(n) ==
    IF n = 0 THEN {<<>>}
    ELSE LET prev == MarkupsUpTo(n - 1) IN
         prev \cup {Append(x, k) : x \in {y \in prev : Len(y) = n - 1}, k \in MarkupTokens}

Markups == MarkupsUpTo(MaxMarkupLen)

\* The markup "[b]oi[/b]".
BoldOi == <<BBOpen("b"), Txt("oi"), BBClose("b")>>

----------------------------------------------------------------------------
(* The tables main() reads *)

\* The most rows the article table holds.
MaxArticles == 4

Ed1 == [numero |-> 1, _id |-> "E1", titulo |-> <<"m", "i", " ", "i">>]
Ed2 == [numero |-> 2, _id |-> "E2", titulo |-> <<"m", "m", "m", " ", "i", " ", "i">>]

\* The edition tables: none, one, and two editions in either row order.
EditionTables == { <<>>, <<Ed1>>, <<Ed1, Ed2>>, <<Ed2, Ed1>> }

\* Titles of 5, 50 and 51 characters.
TitleShort == "Ateus"
Title50 == "Cinquenta caracteres exatos para o titulo do teste"
Title51 == "Cinquenta e um caracteres no titulo deste teste ali"

\* The rows an article table is made of, but for the index: approved rows of
\* edition E2 of each kind, one whose reference is a serialised list, one that
\* is pending and one of edition E1.
ArticleKinds ==
    { [status |-> "Aprovado", edicao |-> StrV("E2"),     tipo |-> "Editorial", titulo |-> TitleShort],
      [status |-> "Aprovado", edicao |-> StrV("E2"),     tipo |-> "Fatos",     titulo |-> Title50],
      [status |-> "Aprovado", edicao |-> StrV("E2"),     tipo |-> "Fatos",     titulo |-> Title51],
      [status |-> "Aprovado", edicao |-> StrV("E2"),     tipo |-> "Zine",      titulo |-> TitleShort],
      [status |-> "Aprovado", edicao |-> StrV("['E2']"), tipo |-> "Zine",      titulo |-> Title50],
      [status |-> "Pendente", edicao |-> StrV("E2"),     tipo |-> "Fatos",     titulo |-> TitleShort],
      [status |-> "Aprovado", edicao |-> StrV("E1"),     tipo |-> "Humor",     titulo |-> TitleShort] }

\* A table row: the kind's cells, the row's index label and its markup.
RowOf(kind, i) ==
    [idx |-> i, status |-> kind.status, edicao |-> kind.edicao, tipo |-> kind.tipo,
     titulo |-> kind.titulo, conteudo |-> BoldOi]

\* The article tables of n rows.
ArticleTables(n) ==
    { [i \in 1..n |-> RowOf(k[i], i)] : k \in [1..n -> ArticleKinds] }

----------------------------------------------------------------------------
(* main() and what it calls: src/build_magazine.py *)

\* The style map as the module defines it, lines 147-157 (the type names
\* without their diacritics).
BuiltinSTYLE ==
    ("Opiniao" :> [acc |-> "#0d0d0d", cols |-> 1]) @@
    ("Fatos" :> [acc |-> "#0d0d0d", cols |-> 2]) @@
    ("Editorial" :> [acc |-> "#0d0d0d", cols |-> 1]) @@
    ("Poesia" :> [acc |-> "#0d0d0d", cols |-> 1, align |-> "center"]) @@
    ("Divulgacao cientifica" :> [acc |-> "#0d0d0d", cols |-> 2]) @@
    ("Humor" :> [acc |-> "#0d0d0d", cols |-> 2]) @@
    ("Eventos" :> [acc |-> "#0d0d0d", cols |-> 2]) @@
    ("Filosofia" :> [acc |-> "#0d0d0d", cols |-> 2]) @@
    ("Contra-apologetica" :> [acc |-> "#0d0d0d", cols |-> 3])

\* The style a type outside the map is given, line 223.
DefaultStyle == [acc |-> "#333", cols |-> 1]

\* A registration that assigns the default whether or not the type is known.
StyleAfterOverwrites(style, tipo) ==
    (tipo :> DefaultStyle) @@ style

\* Line 223: if d["tipo"] not in STYLE: STYLE[d["tipo"]] = {...}
StyleAfter(style, tipo) ==
    IF tipo \notin DOMAIN style THEN (tipo :> DefaultStyle) @@ style ELSE style

\* A mask that forgets the status.
MaskIgnoresStatus(row, id) ==
    clean_id(row.edicao) = Ret(id)

\* Line 216: (status == "Aprovado") & (clean_id(edicao) == ed_id), for one row.
Mask(row, id) ==
    /\ row.status = "Aprovado"
    /\ clean_id(row.edicao) = Ret(id)

\* Line 226: the sort key.
SortKey(a) == IF a.tipo = "Editorial" THEN 0 ELSE 1

\* An insertion that puts a before the elements of equal key.
InsertBeforeEqual(sorted_, a) ==
    LET n == Cardinality({i \in 1..Len(sorted_) : SortKey(sorted_[i]) < SortKey(a)})
    IN  SubSeq(sorted_, 1, n) \o <<a>> \o SubSeq(sorted_, n + 1, Len(sorted_))

\* Where a stable sort puts a among the already sorted elements: after every
\* element whose key is not greater.
InsertStable(sorted_, a) ==
    LET n == Cardinality({i \in 1..Len(sorted_) : SortKey(sorted_[i]) <= SortKey(a)})
    IN  SubSeq(sorted_, 1, n) \o <<a>> \o SubSeq(sorted_, n + 1, Len(sorted_))

RECURSIVE SortedInto(_, _)
SortedInto(acc, rest) ==
    IF rest = <<>> THEN acc ELSE SortedInto(InsertStable(acc, Head(rest)), Tail(rest))

\* sorted(xs, key=...), line 226: Python's sort is stable.
sorted(xs) == SortedInto(<<>>, xs)

\* Line 229: the filter of the highlight candidates.
IsCandidate(a) == a.tipo # "Editorial" /\ Len(a.titulo) <= 50

Min(a, b) == IF a <= b THEN a ELSE b

\* Draws of k positions among n in which a position may come twice.
SamplesWithReplacement(n, k) == [1..k -> 1..n]

\* random.sample(cand, k), line 230: the draws of k distinct positions among n,
\* in any order.
Samples(n, k) ==
    { s \in [1..k -> 1..n] : \A i, j \in 1..k : i # j => s[i] # s[j] }

\* The state of the pipeline when a harness runs instead.
PlIdle ==
    /\ pc = "idle"
    /\ ed_df = <<>>
    /\ art_df = <<>>
    /\ latest_num = 0
    /\ edition = None
    /\ ed_id = None
    /\ arts = <<>>
    /\ articles = <<>>
    /\ STYLE = BuiltinSTYLE
    /\ highlights = <<>>
    /\ font = "unloaded"
    /\ cover = "none"
    /\ back = "none"
    /\ pdf = "none"
    /\ error = "none"

\* The harness of bb2html, when it does not run.
BbIdle ==
    /\ bb_pc = "idle"
    /\ bb_txt = <<>>
    /\ bb_html = <<>>

\* The harness of clean_id, when it does not run.
CiIdle ==
    /\ ci_pc = "idle"
    /\ ci_side = "build"
    /\ ci_v = None
    /\ ci_res = None

\* The start of main(): the two tables are on disk, nothing is computed.
Init ==
    /\ CiIdle
    /\ BbIdle
    /\ wt_pc = "idle"
    /\ wt_text = <<>>
    /\ wt_width = MaxBaseWidth
    /\ wt_lines = <<>>
    /\ wt_height = MaxBaseHeight
    /\ wt_line_height = MaxLineHeight
    /\ wt_subtitle = ""
    /\ wt_layout = NoLayout
    /\ pc = "start"
    /\ ed_df \in EditionTables
    /\ \E n \in 0..MaxArticles : art_df \in ArticleTables(n)
    /\ latest_num = 0
    /\ edition = None
    /\ ed_id = None
    /\ arts = <<>>
    /\ articles = <<>>
    /\ STYLE = BuiltinSTYLE
    /\ highlights = <<>>
    /\ font = "unloaded"
    /\ cover = "none"
    /\ back = "none"
    /\ pdf = "none"
    /\ error = "none"

\* The run ends with exception e.
Abort(e) ==
    /\ pc' = "aborted"
    /\ error' = e

\* Lines 204-205: pd.read_csv of both tables. A table without rows is either a
\* file with only its header or the empty file write_csv leaves for no rows,
\* on which read_csv raises.
ReadCsv ==
    /\ pc = "start"
    /\ \E ed_blank \in {b \in BOOLEAN : b => ed_df = <<>>},
          art_blank \in {b \in BOOLEAN : b => art_df = <<>>} :
          IF ed_blank \/ art_blank
          THEN Abort("EmptyDataError")
          ELSE pc' = "edition" /\ UNCHANGED error
    /\ UNCHANGED <<bb_vars, ci_vars, wt_vars, in_vars, latest_num, edition, ed_id, arts,
                   articles, STYLE, highlights, font, cover, back, pdf>>

\* The greatest numero of the table.
MaxNumero(df) ==
    CHOOSE n \in {df[i].numero : i \in 1..Len(df)} :
        \A i \in 1..Len(df) : df[i].numero <= n

\* A choice of the edition that goes on without one when the table has no row.
PickEditionGoesOn ==
    /\ pc = "edition"
    /\ LET rows == IF ed_df = <<>>
                   THEN <<[numero |-> 0, _id |-> "", titulo |-> <<>>]>>
                   ELSE ed_df
           num == CHOOSE n \in {rows[i].numero : i \in 1..Len(rows)} :
                      \A i \in 1..Len(rows) : rows[i].numero <= n
           first == CHOOSE i \in 1..Len(rows) :
                       /\ rows[i].numero = num
                       /\ \A j \in 1..(i - 1) : rows[j].numero # num
       IN  /\ latest_num' = num
           /\ edition' = rows[first]
           /\ ed_id' = StrV(rows[first]._id)
           /\ pc' = "select"
           /\ UNCHANGED error
    /\ UNCHANGED <<bb_vars, ci_vars, wt_vars, in_vars, arts, articles, STYLE, highlights,
                   font, cover, back, pdf>>

\* Lines 207-209: the edition of greatest numero, the first such row; iloc[0]
\* raises on a table without rows.
PickEdition ==
    /\ pc = "edition"
    /\ IF ed_df = <<>>
       THEN /\ Abort("IndexError")
            /\ UNCHANGED <<latest_num, edition, ed_id>>
       ELSE LET num == MaxNumero(ed_df)
                first == CHOOSE i \in 1..Len(ed_df) :
                            /\ ed_df[i].numero = num
                            /\ \A j \in 1..(i - 1) : ed_df[j].numero # num
            IN  /\ latest_num' = num
                /\ edition' = ed_df[first]
                /\ ed_id' = StrV(ed_df[first]._id)
                /\ pc' = "select"
                /\ UNCHANGED error
    /\ UNCHANGED <<bb_vars, ci_vars, wt_vars, in_vars, arts, articles, STYLE, highlights,
                   font, cover, back, pdf>>

\* Lines 216-219: the approved articles of the edition.
SelectArticles ==
    /\ pc = "select"
    /\ arts' = SelectSeq(art_df, LAMBDA row : Mask(row, ed_id))
    /\ articles' = <<>>
    /\ pc' = "loop"
    /\ UNCHANGED <<bb_vars, ci_vars, wt_vars, in_vars, latest_num, edition, ed_id, STYLE,
                   highlights, font, cover, back, pdf, error>>

\* Lines 220-223: one pass of the loop over the selected rows.
LoopRow ==
    /\ pc = "loop"
    /\ Len(articles) < Len(arts)
    /\ LET row == arts[Len(articles) + 1]
           d == [idx |-> row.idx, status |-> row.status, edicao |-> row.edicao,
                 tipo |-> row.tipo, titulo |-> row.titulo, conteudo |-> row.conteudo,
                 conteudo_html |-> bb2html(row.conteudo)]
       IN  /\ articles' = Append(articles, d)
           /\ STYLE' = StyleAfter(STYLE, d.tipo)
    /\ UNCHANGED <<bb_vars, ci_vars, wt_vars, in_vars, pc, latest_num, edition, ed_id, arts,
                   highlights, font, cover, back, pdf, error>>

\* Line 226, when the loop is over: the Editorial first.
SortArticles ==
    /\ pc = "loop"
    /\ Len(articles) = Len(arts)
    /\ articles' = sorted(articles)
    /\ pc' = "highlights"
    /\ UNCHANGED <<bb_vars, ci_vars, wt_vars, in_vars, latest_num, edition, ed_id, arts, STYLE,
                   highlights, font, cover, back, pdf, error>>

\* Lines 229-230: the highlights, up to 3 candidates drawn at random.
PickHighlights ==
    /\ pc = "highlights"
    /\ LET cand == SelectSeq(articles, IsCandidate)
       IN  \E s \in Samples(Len(cand), Min(3, Len(cand))) :
              highlights' = [i \in 1..Min(3, Len(cand)) |->
                                [title |-> cand[s[i]].titulo, page |-> "?"]]
    /\ pc' = "cover"
    /\ UNCHANGED <<bb_vars, ci_vars, wt_vars, in_vars, latest_num, edition, ed_id, arts,
                   articles, STYLE, font, cover, back, pdf, error>>

\* Lines 232-236 and compose_cover, lines 104-137: the fonts are loaded with no
\* handler around ImageFont.truetype, which raises OSError on a missing file;
\* then the title is wrapped, drawn, and the image saved.
ComposeCover ==
    /\ pc = "cover"
    /\ \E font_found \in BOOLEAN :
          IF ~font_found
          THEN /\ Abort("OSError")
               /\ font' = "missing"
               /\ UNCHANGED <<wt_text, wt_lines, wt_layout, cover>>
          ELSE /\ font' = "fonts/Lora-Bold.ttf"
               /\ wt_text' = edition.titulo
               /\ wt_lines' = wrap_text(edition.titulo, MaxWidthOf(wt_width))
               /\ wt_layout' = compose_layout(wt_lines', wt_line_height, wt_height,
                                               wt_subtitle)
               /\ cover' = "cover_generated.png"
               /\ pc' = "back"
               /\ UNCHANGED error
    /\ UNCHANGED <<bb_vars, ci_vars, wt_pc, wt_width, wt_height, wt_line_height, wt_subtitle,
                   in_vars, latest_num, edition, ed_id,
                   arts, articles, STYLE, highlights, back, pdf>>

\* Line 237 and blank_back, lines 140-144.
BlankBack ==
    /\ pc = "back"
    /\ back' = "back.png"
    /\ pc' = "pdf"
    /\ UNCHANGED <<bb_vars, ci_vars, wt_vars, in_vars, latest_num, edition, ed_id, arts,
                   articles, STYLE, highlights, font, cover, pdf, error>>

\* Lines 240-242 and build_pdf, lines 160-192.
BuildPdf ==
    /\ pc = "pdf"
    /\ pdf' = "written"
    /\ pc' = "done"
    /\ UNCHANGED <<bb_vars, ci_vars, wt_vars, in_vars, latest_num, edition, ed_id, arts,
                   articles, STYLE, highlights, font, cover, back, error>>

Next ==
    \/ ReadCsv
    \/ PickEdition
    \/ SelectArticles
    \/ LoopRow
    \/ SortArticles
    \/ PickHighlights
    \/ ComposeCover
    \/ BlankBack
    \/ BuildPdf

Spec == Init /\ [][Next]_vars

----------------------------------------------------------------------------
(* The harness of clean_id: one call on one argument *)

\* The harness of the cover layout, when it does not run.
WtIdle ==
    /\ wt_pc = "idle"
    /\ wt_text = <<>>
    /\ wt_width = 0
    /\ wt_lines = <<>>
    /\ wt_height = 0
    /\ wt_line_height = 0
    /\ wt_subtitle = ""
    /\ wt_layout = NoLayout

InitCleanId ==
    /\ WtIdle
    /\ BbIdle
    /\ PlIdle
    /\ ci_pc = "call"
    /\ ci_side \in {"build", "ingest"}
    /\ ci_v \in RefValues
    /\ ci_res = None

CallCleanId ==
    /\ ci_pc = "call"
    /\ ci_res' = CleanIdOf(ci_side, ci_v)
    /\ ci_pc' = "done"
    /\ UNCHANGED <<ci_side, ci_v, wt_vars, bb_vars, pl_vars>>

NextCleanId == CallCleanId

SpecCleanId == InitCleanId /\ [][NextCleanId]_vars

----------------------------------------------------------------------------
(* The harness of the cover layout: wrap_text on one title for one cover *)

InitWrap ==
    /\ CiIdle
    /\ BbIdle
    /\ PlIdle
    /\ wt_pc = "call"
    /\ wt_text \in Texts
    /\ wt_width \in 1..MaxBaseWidth
    /\ wt_lines = <<>>
    /\ wt_height = 0
    /\ wt_line_height = 0
    /\ wt_subtitle = ""
    /\ wt_layout = NoLayout

CallWrapText ==
    /\ wt_pc = "call"
    /\ wt_lines' = wrap_text(wt_text, MaxWidthOf(wt_width))
    /\ wt_pc' = "done"
    /\ UNCHANGED <<wt_text, wt_width, wt_height, wt_line_height, wt_subtitle,
                   wt_layout, ci_vars, bb_vars, pl_vars>>

NextWrap == CallWrapText

SpecWrap == InitWrap /\ [][NextWrap]_vars

----------------------------------------------------------------------------
(* The harness of the vertical placement: the layout of compose_cover for   *)
(* one title, one cover size, one line height, with or without a subtitle   *)

InitLayout ==
    /\ CiIdle
    /\ BbIdle
    /\ PlIdle
    /\ wt_pc = "call"
    /\ wt_text \in TextsUpTo(MaxLayoutTextLen)
    /\ wt_width \in {1, MaxBaseWidth}
    /\ wt_lines = <<>>
    /\ wt_height \in 1..MaxBaseHeight
    /\ wt_line_height \in 1..MaxLineHeight
    /\ wt_subtitle \in {"", "Revista"}
    /\ wt_layout = NoLayout

\* compose_cover, lines 111-133, with the font loaded.
ComposeLayout ==
    /\ wt_pc = "call"
    /\ wt_lines' = wrap_text(wt_text, MaxWidthOf(wt_width))
    /\ wt_layout' = compose_layout(wt_lines', wt_line_height, wt_height, wt_subtitle)
    /\ wt_pc' = "done"
    /\ UNCHANGED <<wt_text, wt_width, wt_height, wt_line_height, wt_subtitle,
                   ci_vars, bb_vars, pl_vars>>

NextLayout == ComposeLayout

SpecLayout == InitLayout /\ [][NextLayout]_vars

----------------------------------------------------------------------------
(* The harness of bb2html: one call on one markup *)

InitSanitize ==
    /\ CiIdle
    /\ WtIdle
    /\ PlIdle
    /\ bb_pc = "call"
    /\ bb_txt \in Markups
    /\ bb_html = <<>>

CallBb2html ==
    /\ bb_pc = "call"
    /\ bb_html' = bb2html(bb_txt)
    /\ bb_pc' = "done"
    /\ UNCHANGED <<bb_txt, ci_vars, wt_vars, pl_vars>>

NextSanitize == CallBb2html

SpecSanitize == InitSanitize /\ [][NextSanitize]_vars

----------------------------------------------------------------------------
(* The claims *)

RECURSIVE WordsOfLines(_)
\* The words of the lines, line after line.
WordsOfLines(lines) ==
    IF lines = <<>> THEN <<>> ELSE Split(Head(lines)) \o WordsOfLines(Tail(lines))

(* C4: clean_id is total: on every reference value, on the build side and on *)
(* the ingestion side, the call returns a value and no exception escapes.    *)
C4_CleanIdTotal == ci_pc = "done" => ci_res[1] = "ret"

(* C5: wrapping in a genuine list changes nothing: clean_id of a genuine     *)
(* list is clean_id of its first element, and None for the empty list.       *)
C5_ListWrapIdempotent ==
    (ci_pc = "done" /\ IsList(ci_v)) =>
        ci_res = IF ci_v[2] = <<>> THEN Ret(None)
                 ELSE CleanIdOf(ci_side, ci_v[2][1])

\* Whether literal_eval gives no list for s (it raises, or gives another literal).
NotALiteralList(s) ==
    LiteralEval(s)[1] = "raise" \/ ~IsList(LiteralEval(s)[2])

(* C6: a string that starts with "[" and does not parse as a literal list    *)
(* comes back as it is, character for character, never None and never an     *)
(* exception; one that parses to a non-empty list gives clean_id of the      *)
(* list's first element.                                                     *)
C6_MalformedFallback ==
    (ci_pc = "done" /\ IsStr(ci_v) /\ StartsWithBracket(ci_v[2])) =>
        /\ NotALiteralList(ci_v[2]) => ci_res = Ret(ci_v)
        /\ (~NotALiteralList(ci_v[2]) /\ LiteralEval(ci_v[2])[2][2] # <<>>) =>
               ci_res = CleanIdOf(ci_side, LiteralEval(ci_v[2])[2][2][1])

(* C7, as claimed: the words of the returned lines, in line order, are the  *)
(* words of the text, and every non-empty text gives at least one line.     *)
C7_WordsKept_Original ==
    wt_pc = "done" =>
        /\ WordsOfLines(wt_lines) = Split(wt_text)
        /\ wt_text # <<>> => Len(wt_lines) >= 1

(* C7, amended: the words of the returned lines, in line order, are the     *)
(* words of the text, and every text that holds at least one word gives at  *)
(* least one line.                                                          *)
C7_WordsKept ==
    wt_pc = "done" =>
        /\ WordsOfLines(wt_lines) = Split(wt_text)
        /\ Split(wt_text) # <<>> => Len(wt_lines) >= 1

\* C7's case: a title of several words that wrap_text broke into several lines.
C7_Witness ==
    /\ wt_pc = "done"
    /\ Len(Split(wt_text)) >= 3
    /\ Len(wt_lines) >= 2
    /\ \E i \in 1..Len(wt_lines) : Len(Split(wt_lines[i])) >= 2

(* C8: every returned line is at most max_width wide, but for a line that   *)
(* is one single word wider than max_width by itself; and a title that is   *)
(* wider than max_width on one line comes back as at least two lines.       *)
C8_WidthBound ==
    wt_pc = "done" =>
        LET max_width == MaxWidthOf(wt_width) IN
        /\ \A i \in 1..Len(wt_lines) :
              \/ TextWidth(wt_lines[i]) <= max_width
              \/ /\ Len(Split(wt_lines[i])) = 1
                 /\ wt_lines[i] = Split(wt_lines[i])[1]
                 /\ wt_lines[i] \in {Split(wt_text)[k] : k \in 1..Len(Split(wt_text))}
        /\ TextWidth(Join(Split(wt_text))) > max_width => Len(wt_lines) >= 2

\* C8's case: a wrapped title with a word wider than max_width on a line of its
\* own, and a line of several words beside it.
C8_Witness ==
    /\ wt_pc = "done"
    /\ TextWidth(Join(Split(wt_text))) > MaxWidthOf(wt_width)
    /\ \E i \in 1..Len(wt_lines) : TextWidth(wt_lines[i]) > MaxWidthOf(wt_width)
    /\ \E i \in 1..Len(wt_lines) : Len(Split(wt_lines[i])) >= 2

\* The steps of main() after the selection, after the sort and after the draw
\* of the highlights.
AfterSelect == {"loop", "highlights", "cover", "back", "pdf", "done"}
AfterSort == {"highlights", "cover", "back", "pdf", "done"}
AfterHighlights == {"cover", "back", "pdf", "done"}

\* The row an article dict was made from.
RowOfDict(d) ==
    [idx |-> d.idx, status |-> d.status, edicao |-> d.edicao, tipo |-> d.tipo,
     titulo |-> d.titulo, conteudo |-> d.conteudo]

\* The elements of a sequence, as a set.
Range(s) == {s[i] : i \in 1..Len(s)}

(* C1: the selected rows are exactly the rows whose status is "Aprovado"   *)
(* and whose edition reference, normalised by clean_id, is the id of the   *)
(* current edition: none that fails either test, all that pass both, each  *)
(* once.                                                                   *)
C1_SelectionExact ==
    pc \in AfterSelect =>
        /\ \A i \in 1..Len(art_df) :
              art_df[i] \in Range(arts) <=>
                  /\ art_df[i].status = "Aprovado"
                  /\ clean_id(art_df[i].edicao) = Ret(ed_id)
        /\ Range(arts) \subseteq Range(art_df)
        /\ Cardinality(Range(arts)) = Len(arts)

\* C1's case: a run that selected an article with a plain reference and one
\* with a serialised-list reference, and left out a pending article of the
\* edition and an approved article of another edition.
C1_Witness ==
    /\ pc = "done"
    /\ \E r \in Range(arts) : r.edicao = StrV("['E2']")
    /\ \E r \in Range(arts) : r.edicao = StrV("E2")
    /\ \E r \in Range(art_df) \ Range(arts) : r.status = "Pendente" /\ r.edicao = ed_id
    /\ \E r \in Range(art_df) \ Range(arts) : r.status = "Aprovado" /\ r.edicao = StrV("E1")

\* The articles of a sequence that are (ed) or are not (~ed) Editorial, as rows.
PartOf(s, ed) ==
    LET part == SelectSeq(s, LAMBDA a : (a.tipo = "Editorial") = ed)
    IN  [i \in 1..Len(part) |-> RowOfDict(part[i])]

(* C2: after the sort every Editorial article precedes every other one,    *)
(* the list is a permutation of the selected articles, and the Editorial   *)
(* articles, and the others, are in the order of the input.                *)
C2_StablePartition ==
    pc \in AfterSort =>
        /\ \A i, j \in 1..Len(articles) :
              (i < j /\ articles[j].tipo = "Editorial") => articles[i].tipo = "Editorial"
        /\ Len(articles) = Len(arts)
        /\ {RowOfDict(articles[i]) : i \in 1..Len(articles)} = Range(arts)
        /\ PartOf(articles, TRUE) = PartOf(arts, TRUE)
        /\ PartOf(articles, FALSE) = PartOf(arts, FALSE)

\* C2's case: the selection had an article of another type before an
\* Editorial and one after it, and the sort moved the Editorial to the front.
C2_Witness ==
    /\ pc = "done"
    /\ Len(arts) >= 3
    /\ arts[1].tipo = "Fatos" /\ arts[2].tipo = "Editorial" /\ arts[3].tipo = "Zine"
    /\ articles[1].tipo = "Editorial" /\ articles[2].tipo = "Fatos"
    /\ articles[3].tipo = "Zine"

\* The positions of the highlight candidates among the articles.
Pool == {i \in 1..Len(articles) :
            articles[i].tipo # "Editorial" /\ Len(articles[i].titulo) <= 50}

(* C3: the highlights are min(3, |pool|) entries, each the title of a pool *)
(* article with the placeholder page, no pool article used twice; the pool *)
(* is the articles that are not Editorial and whose title has at most 50   *)
(* characters.                                                             *)
C3_Highlights ==
    pc \in AfterHighlights =>
        /\ Len(highlights) = Min(3, Cardinality(Pool))
        /\ \E f \in [1..Len(highlights) -> Pool] :
              /\ \A i, j \in 1..Len(highlights) : i # j => f[i] # f[j]
              /\ \A i \in 1..Len(highlights) :
                    highlights[i] = [title |-> articles[f[i]].titulo, page |-> "?"]

\* C3's case: more than 3 candidates, an Editorial and an article with a title
\* of 51 characters beside them, and 3 highlights drawn.
C3_Witness ==
    /\ pc = "done"
    /\ Cardinality(Pool) = 4
    /\ Len(highlights) = 3
    /\ highlights[1].title # highlights[2].title

\* C3's other case: fewer candidates than 3, an Editorial and a long title
\* among the selected articles.
C3_WitnessSmallPool ==
    /\ pc = "done"
    /\ Cardinality(Pool) = 2
    /\ Len(highlights) = 2
    /\ \E i \in 1..Len(articles) : articles[i].tipo = "Editorial"
    /\ \E i \in 1..Len(articles) : Len(articles[i].titulo) = 51

(* C9: after the loop every article's type has a style; a type outside the *)
(* built-in map has the default {acc "#333", cols 1}, the built-in types   *)
(* have their built-in style, and no step changes or removes an entry the  *)
(* map already holds.                                                      *)
C9_StyleResolution ==
    /\ [](pc \in AfterSort => \A i \in 1..Len(articles) : articles[i].tipo \in DOMAIN STYLE)
    /\ [](\A t \in DOMAIN STYLE :
             STYLE[t] = IF t \in DOMAIN BuiltinSTYLE THEN BuiltinSTYLE[t] ELSE DefaultStyle)
    /\ [][\A t \in DOMAIN STYLE : t \in DOMAIN STYLE' /\ STYLE'[t] = STYLE[t]]_vars

\* C9's case: two articles of a type outside the built-in map and one of a
\* built-in type went through the loop.
C9_Witness ==
    /\ pc = "done"
    /\ Cardinality({i \in 1..Len(articles) : articles[i].tipo = "Zine"}) >= 2
    /\ \E i \in 1..Len(articles) : articles[i].tipo = "Fatos"
    /\ STYLE["Zine"] = DefaultStyle
    /\ articles[1].tipo = "Zine"

(* C10: when the font file cannot be loaded compose_cover does not abort:  *)
(* it draws with the default typeface and writes the cover image, and the  *)
(* run goes on to the rendering of the document.                           *)
C10_MissingFontRecovered ==
    font = "missing" =>
        /\ pc # "aborted"
        /\ cover = "cover_generated.png"

(* C11: a run that starts from an edition table without rows aborts before *)
(* any rendering step: it never gets past the choice of the edition, that  *)
(* choice ends the run, compose_cover, blank_back and build_pdf are never  *)
(* called and no cover image, back cover or PDF is written.                *)
C11_NoEditionAborts ==
    /\ [](ed_df = <<>> =>
             /\ pc \in {"start", "edition", "aborted"}
             /\ font = "unloaded" /\ wt_lines = <<>>
             /\ cover = "none" /\ back = "none" /\ pdf = "none")
    /\ [][(ed_df = <<>> /\ pc = "edition") => pc' = "aborted"]_vars

\* C11's case: the edition table had its header and no row, and the choice of
\* the edition ended the run.
C11_Witness ==
    /\ ed_df = <<>>
    /\ Len(art_df) >= 1
    /\ pc = "aborted"
    /\ error = "IndexError"

(* C14: wrap_text never returns an empty line: every returned line holds   *)
(* at least one word, also when the first word of the text is wider than   *)
(* max_width, so there are never more lines than words.                    *)
C14_NoEmptyLine ==
    wt_pc = "done" =>
        /\ \A i \in 1..Len(wt_lines) : wt_lines[i] # <<>>
        /\ Len(wt_lines) <= Len(Split(wt_text))

\* |x|
Abs(x) == IF x < 0 THEN -x ELSE x

(* C13: for a title of n >= 1 lines the block is n line heights and n - 1  *)
(* gaps of 10 px high; its vertical centre is within one pixel of 65 % of  *)
(* the height of the canvas; line i (from 0) is at top + i x (h + 10), so  *)
(* the last line ends at top + block height; and the subtitle, when there  *)
(* is one, is 20 px below the bottom of the block.                         *)
C13_VerticalPlacement ==
    (wt_pc = "done" /\ Len(wt_lines) >= 1) =>
        LET n == Len(wt_lines)
            h == wt_line_height
            top == wt_layout.start_y
            block == wt_layout.block_h
        IN  /\ block = n * h + (n - 1) * 10
            \* |(top + block / 2) - 0.65 H| <= 1, times 20
            /\ Abs(20 * top + 10 * block - 13 * wt_height) <= 20
            /\ Len(wt_layout.ys) = n
            /\ \A i \in 1..n : wt_layout.ys[i] = top + (i - 1) * (h + 10)
            /\ wt_layout.ys[n] + h = top + block
            /\ wt_layout.sy = IF wt_subtitle # "" THEN <<top + block + 20>> ELSE <<>>

\* C13's case: a title of several lines with a subtitle, the block of odd
\* height and the 65 % mark between two pixels, so that both roundings act.
C13_Witness ==
    /\ wt_pc = "done"
    /\ Len(wt_lines) >= 2
    /\ \A i \in 1..Len(wt_lines) : wt_lines[i] # <<>>
    /\ wt_subtitle # ""
    /\ wt_layout.block_h % 2 = 1
    /\ (wt_height * 65) % 100 # 0
    /\ wt_layout.sy # <<>>

\* The tags the allow-list names: the base safe tags and the nine more.
C12_Tags ==
    {"a", "abbr", "acronym", "b", "blockquote", "code", "em", "i", "li", "ol",
     "strong", "ul", "p", "span", "div", "h1", "h2", "h3", "br", "hr", "img"}

(* C12: whatever the markup, bb2html returns HTML (one piece of output for *)
(* each piece of markup, never a failure) in which every element has an    *)
(* allowed tag, no attribute but class, or src and alt on img, and no CSS  *)
(* property but color, font-size and text-align.                           *)
C12_AllowList ==
    bb_pc = "done" =>
        /\ DOMAIN bb_html = 1..Len(bb_txt)
        /\ \A i \in 1..Len(bb_html) :
              /\ bb_html[i].type \in {"text", "elem"}
              /\ bb_html[i].type = "elem" =>
                    /\ bb_html[i].name \in C12_Tags
                    /\ bb_html[i].attrs \subseteq
                          (IF bb_html[i].name = "img" THEN {"class", "src", "alt"}
                           ELSE {"class"})
                    /\ bb_html[i].css \subseteq {"color", "font-size", "text-align"}

\* C12's case: hostile markup has been through bb2html: a tag written in
\* the markup itself is plain characters in the output, and the element of
\* [url], which BBCode renders with rel and href, has lost both.
C12_Witness ==
    /\ bb_pc = "done"
    /\ \E i \in 1..Len(bb_txt) :
          /\ bb_txt[i] \in {RawHtml("script", TRUE, {}),
                            RawHtml("img", TRUE, {"src", "onerror"})}
          /\ bb_html[i].type = "text"
    /\ \E i \in 1..Len(bb_txt) :
          /\ bb_txt[i] = BBOpen("url")
          /\ bb_html[i] = Elem("a", TRUE, {}, {})

====
